---- MODULE Spec2Model ----
(***************************************************************************)
(* Model of the discrete-event virtual network used to test consensus      *)
(* (node/src/components/consensus/tests/consensus_des_testing.rs):         *)
(* Validator bookkeeping, the delivery Strategy, and VirtualNet with its   *)
(* delivery queue.  The Queue type itself lives in super::queue; it is     *)
(* modelled from its contract (a priority queue on delivery_time).         *)
(***************************************************************************)
EXTENDS Naturals, Sequences, FiniteSets, Bags, TLC

\* ------------------------------------------------------------------ bounds
\* validator ids are 1..MaxId
MaxId == 2
\* message payloads are 0..MaxPayload
MaxPayload == 1
\* base delivery times handed to the net are 1..MaxTime
MaxTime == 2
\* the driver never lets more than MaxQueue entries be pending
MaxQueue == 2
\* a dispatch_messages call carries at most MaxBatch targeted messages
MaxBatch == 2
\* VirtualNet::new gets at most MaxInit initial entries
MaxInit == 1
\* the random source has RngMod states
RngMod == 3
\* a history of a validator holds at most MaxHist items
MaxHist == 2
\* the ledger of scheduled entries is kept for the first MaxLedger entries scheduled
MaxLedger == 2

AllIds == 1..MaxId
Payloads == 0..MaxPayload
Timestamps == 1..MaxTime

\* ------------------------------------------------------------ message model
Message_new(sender, payload) == [sender |-> sender, payload |-> payload]

\* payload p is produced by validator p mod MaxId + 1
Messages == {Message_new((p % MaxId) + 1, p) : p \in Payloads}

SingleValidator(id) == [tag |-> "SingleValidator", id |-> id]

All == [tag |-> "All", id |-> 0]

Targets == {All} \cup {SingleValidator(id) : id \in AllIds}

TargetedMessage_new(message, target) == [message |-> message, target |-> target]

TargetedMessages == {TargetedMessage_new(m, t) : m \in Messages, t \in Targets}

\* --------------------------------------------------------------- validator
Validator_new(id, is_faulty) ==
    [id |-> id, is_faulty |-> is_faulty, finalized_values |-> <<>>,
     messages_received |-> <<>>, messages_produced |-> <<>>]

\* push_finalized as it would be if it extended the produced payloads as well
push_finalized_both(v, finalized_values) ==
    [v EXCEPT !.finalized_values = @ \o finalized_values,
              !.messages_produced = @ \o finalized_values]

push_finalized(v, finalized_values) ==
    [v EXCEPT !.finalized_values = @ \o finalized_values]

push_messages_received(v, messages) ==
    [v EXCEPT !.messages_received = @ \o messages]

\* push_messages_produced as it would be if it skipped payloads already in the history
push_messages_produced_dedup(v, messages) ==
    [v EXCEPT !.messages_produced =
        @ \o SelectSeq(messages, LAMBDA m : \A i \in DOMAIN v.messages_produced :
                                                v.messages_produced[i] # m)]

push_messages_produced(v, messages) ==
    [v EXCEPT !.messages_produced = @ \o messages]

finalized_count(v) == Len(v.finalized_values)

\* ---------------------------------------------------------------- strategy
DeliverySchedule_at(instant) == [tag |-> "AtInstant", t |-> instant]

DeliverySchedule_drop(instant) == [tag |-> "Drop", t |-> 0]

\* the random source: a draw reads the state, rng_next advances it
rng_next(rng) == (rng + 1) % RngMod

\* Strategy::map as it would be if it read the random source and delayed the item by
\* one tick on a non-zero draw
Strategy_map_jitter(rng, i) ==
    [rand |-> rng_next(rng),
     out |-> IF rng = 0 THEN i ELSE DeliverySchedule_at(i.t + 1)]

\* the provided method of trait Strategy: the item as it is, rng unused
Strategy_map(rng, i) == [rand |-> rng, out |-> i]

\* NoOpDelay: the identity, the random source is not touched
NoOpDelay_map(rng, i) == [rand |-> rng, out |-> i]

\* a strategy that drops every message
AlwaysDrop_map(rng, i) == [rand |-> rng, out |-> DeliverySchedule_drop(i.t)]

\* a fault-injecting strategy: on time, one tick late, or dropped, by the draw
Tamper_map(rng, i) ==
    [rand |-> rng_next(rng),
     out |-> CASE rng % 3 = 0 -> i
               [] rng % 3 = 1 -> DeliverySchedule_at(i.t + 1)
               [] OTHER -> DeliverySchedule_drop(i.t)]

Strategies == {"Default", "NoOpDelay", "AlwaysDrop", "Tamper"}

map(strategy, rng, i) ==
    CASE strategy = "Default" -> Strategy_map(rng, i)
      [] strategy = "NoOpDelay" -> NoOpDelay_map(rng, i)
      [] strategy = "AlwaysDrop" -> AlwaysDrop_map(rng, i)
      [] OTHER -> Tamper_map(rng, i)

\* ------------------------------------------------------------------- queue
QueueEntry_new(delivery_time, recipient, message) ==
    [delivery_time |-> delivery_time, recipient |-> recipient, message |-> message]

Queue_default == EmptyBag

Queue_push(q, qe) == q (+) SetToBag({qe})

Queue_len(q) == BagCardinality(q)

\* the entries pop may return: earliest delivery_time first; among those the
\* largest recipient (the order messages_are_dispatched asserts); what is left
\* differs in the message only and any of them may come first
Queue_next(q) ==
    LET es == BagToSet(q)
        early == {e \in es : \A f \in es : e.delivery_time <= f.delivery_time}
    IN  {e \in early : \A f \in early : e.recipient >= f.recipient}

None == [some |-> FALSE]

Some(e) == [some |-> TRUE, entry |-> e]

\* the possible outcomes of pop: the queue left and the value returned
Queue_pop(q) ==
    IF Queue_len(q) = 0
    THEN {[msg_queue |-> q, ret |-> None]}
    ELSE {[msg_queue |-> q (-) SetToBag({e}), ret |-> Some(e)] : e \in Queue_next(q)}

Queue_clear(q) == EmptyBag

\* ------------------------------------------------------------- virtual net
VARIABLES
    validators_map,          \* VirtualNet.validators_map: id -> Validator
    msg_queue,               \* VirtualNet.msg_queue
    delivery_time_strategy,  \* VirtualNet.delivery_time_strategy
    rand,                    \* the driver's random source, passed to dispatch_messages
    last_op,                 \* the call made last: its arguments, what it returned, the strategy calls it made
    run,                     \* the entries popped since the last call that was no pop_message
    max_popped,              \* the largest delivery_time pop_message ever returned
    phase,                   \* "new" / "clear": only pushes since construction / empty_queue;
                             \* "newpop" / "clearpop": then only pops; "mixed": a push followed a pop
    pushed,                  \* while phase is not "mixed": the entries handed to the queue since
                             \* construction / empty_queue, in the order they were handed over
    ledger                   \* while open: the entries scheduled since construction, those
                             \* pop_message returned and those empty_queue discarded

vars == <<validators_map, msg_queue, delivery_time_strategy, rand, last_op, run, max_popped,
          phase, pushed, ledger>>

RECURSIVE SeqToBag(_)
SeqToBag(s) == IF s = <<>> THEN EmptyBag ELSE SetToBag({Head(s)}) (+) SeqToBag(Tail(s))

\* the ledger: closed when it is not kept, or no longer kept
NoLedger ==
    [open |-> FALSE, scheduled |-> EmptyBag, delivered |-> EmptyBag, discarded |-> EmptyBag]

Ledger(entries) ==
    [open |-> TRUE, scheduled |-> SeqToBag(entries), delivered |-> EmptyBag,
     discarded |-> EmptyBag]

Ledger_schedule(l, entries) ==
    IF l.open /\ BagCardinality(l.scheduled) + Len(entries) <= MaxLedger
    THEN [l EXCEPT !.scheduled = @ (+) SeqToBag(entries)]
    ELSE NoLedger

Ledger_deliver(l, ret) ==
    IF l.open /\ ret.some THEN [l EXCEPT !.delivered = @ (+) SetToBag({ret.entry})] ELSE l

Ledger_discard(l, q) ==
    IF l.open THEN [l EXCEPT !.discarded = @ (+) q] ELSE l

SeqsUpTo(S, n) == UNION {[1..k -> S] : k \in 0..n}

\* keys as it would be if the map iterated in descending key order
RECURSIVE keys_descending(_)
keys_descending(S) ==
    IF S = {} THEN <<>>
    ELSE LET m == CHOOSE x \in S : \A y \in S : x >= y
         IN  <<m>> \o keys_descending(S \ {m})

\* BTreeMap::keys: the keys in ascending order
RECURSIVE keys(_)
keys(S) ==
    IF S = {} THEN <<>>
    ELSE LET m == CHOOSE x \in S : \A y \in S : x <= y
         IN  <<m>> \o keys(S \ {m})

\* validators_ids as it would be if it skipped the first id
validators_ids_skip(vm) == IF DOMAIN vm = {} THEN <<>> ELSE Tail(keys(DOMAIN vm))

validators_ids(vm) == keys(DOMAIN vm)

\* get_validator as it would be if it fell back to the first registered validator
get_validator_or_first(vm, validator) ==
    IF validator \in DOMAIN vm THEN Some(vm[validator])
    ELSE IF DOMAIN vm = {} THEN None
    ELSE Some(vm[CHOOSE k \in DOMAIN vm : \A j \in DOMAIN vm : k <= j])

get_validator(vm, validator) ==
    IF validator \in DOMAIN vm THEN Some(vm[validator]) ELSE None

get_validator_mut(vm, validator_id) ==
    IF validator_id \in DOMAIN vm THEN Some(vm[validator_id]) ELSE None

\* fn validator: the same lookup as get_validator, the id taken by reference
validator(vm, validator_id) ==
    IF validator_id \in DOMAIN vm THEN Some(vm[validator_id]) ELSE None

\* schedule_message as it would be if it started a new queue for the entry
schedule_message_replace(q, delivery_time, recipient, message) ==
    Queue_push(Queue_default, QueueEntry_new(delivery_time, recipient, message))

\* schedule_message as it would be if it scheduled the entry one tick late
schedule_message_late(q, delivery_time, recipient, message) ==
    Queue_push(q, QueueEntry_new(delivery_time + 1, recipient, message))

\* schedule_message as it would be if it pushed the entry twice
schedule_message_twice(q, delivery_time, recipient, message) ==
    Queue_push(Queue_push(q, QueueEntry_new(delivery_time, recipient, message)),
               QueueEntry_new(delivery_time, recipient, message))

\* fn schedule_message: build the entry and push it
schedule_message(q, delivery_time, recipient, message) ==
    Queue_push(q, QueueEntry_new(delivery_time, recipient, message))

\* The result of a dispatch: the queue and the random source it leaves, the
\* strategy calls it made and the entries it handed to schedule_message.
Sent(q, rng) == [msg_queue |-> q, rand |-> rng, consulted |-> <<>>, scheduled |-> <<>>]

\* send_one as it would be if a Drop outcome were scheduled at the base time
send_one_nodrop(strategy, acc, validator_id, message, base_delivery_time) ==
    LET i == DeliverySchedule_at(base_delivery_time)
        tampered_delivery_time == map(strategy, acc.rand, i)
        out == tampered_delivery_time.out
        dt == IF out.tag = "Drop" THEN base_delivery_time ELSE out.t
    IN  [msg_queue |-> schedule_message(acc.msg_queue, dt, validator_id, message),
         rand |-> tampered_delivery_time.rand,
         consulted |-> Append(acc.consulted, [recipient |-> validator_id, message |-> message,
                                              arg |-> i, out |-> out]),
         scheduled |-> Append(acc.scheduled, QueueEntry_new(dt, validator_id, message))]

\* send_one as it would be if the time the strategy returned for one recipient were
\* handed to the strategy as the base time of the next
send_one_chained(strategy, acc, validator_id, message, base_delivery_time) ==
    LET i == IF acc.scheduled = <<>> THEN DeliverySchedule_at(base_delivery_time)
             ELSE DeliverySchedule_at(acc.scheduled[Len(acc.scheduled)].delivery_time)
        tampered_delivery_time == map(strategy, acc.rand, i)
        out == tampered_delivery_time.out
        call == [recipient |-> validator_id, message |-> message, arg |-> i, out |-> out]
    IN  IF out.tag = "Drop"
        THEN [acc EXCEPT !.rand = tampered_delivery_time.rand,
                         !.consulted = Append(@, call)]
        ELSE [msg_queue |-> schedule_message(acc.msg_queue, out.t, validator_id, message),
              rand |-> tampered_delivery_time.rand,
              consulted |-> Append(acc.consulted, call),
              scheduled |-> Append(acc.scheduled, QueueEntry_new(out.t, validator_id, message))]

\* the body of the loop of send_messages: one strategy call with the base
\* delivery time, then nothing on Drop, schedule_message on AtInstant
send_one(strategy, acc, validator_id, message, base_delivery_time) ==
    LET i == DeliverySchedule_at(base_delivery_time)
        tampered_delivery_time == map(strategy, acc.rand, i)
        out == tampered_delivery_time.out
        call == [recipient |-> validator_id, message |-> message, arg |-> i, out |-> out]
    IN  IF out.tag = "Drop"
        THEN [acc EXCEPT !.rand = tampered_delivery_time.rand,
                         !.consulted = Append(@, call)]
        ELSE [msg_queue |-> schedule_message(acc.msg_queue, out.t, validator_id, message),
              rand |-> tampered_delivery_time.rand,
              consulted |-> Append(acc.consulted, call),
              scheduled |-> Append(acc.scheduled, QueueEntry_new(out.t, validator_id, message))]

\* fn send_messages: the recipients in the order given
RECURSIVE send_messages(_, _, _, _, _)
send_messages(strategy, acc, recipients, message, base_delivery_time) ==
    IF recipients = <<>> THEN acc
    ELSE send_messages(strategy,
                       send_one(strategy, acc, Head(recipients), message, base_delivery_time),
                       Tail(recipients), message, base_delivery_time)

\* recipients_of as it would be if a single recipient had to be registered
recipients_of_registered(vm, target) ==
    IF target.tag = "All" THEN validators_ids(vm)
    ELSE IF target.id \in DOMAIN vm THEN <<target.id>> ELSE <<>>

\* the recipients of a target: the registered ids in ascending order, or the one id
recipients_of(vm, target) ==
    IF target.tag = "All" THEN validators_ids(vm) ELSE <<target.id>>

\* the loop of dispatch_messages: the messages in order, each sent to its recipients
RECURSIVE dispatch_loop(_, _, _, _, _)
dispatch_loop(vm, strategy, acc, delivery_time, messages) ==
    IF messages = <<>> THEN acc
    ELSE dispatch_loop(vm, strategy,
                       send_messages(strategy, acc, recipients_of(vm, Head(messages).target),
                                     Head(messages).message, delivery_time),
                       delivery_time, Tail(messages))

\* dispatch_messages as it would be if every call started from a freshly seeded random
\* source
dispatch_messages_reseeded(vm, strategy, q, rng, delivery_time, messages) ==
    dispatch_loop(vm, strategy, Sent(q, 0), delivery_time, messages)

\* fn dispatch_messages
dispatch_messages(vm, strategy, q, rng, delivery_time, messages) ==
    dispatch_loop(vm, strategy, Sent(q, rng), delivery_time, messages)

\* pop_message as it would be if it returned the next entry without removing it
pop_message_peek(q) == {[msg_queue |-> q, ret |-> r.ret] : r \in Queue_pop(q)}

\* pop_message as it would be if it returned the entry with the latest delivery_time
pop_message_latest(q) ==
    IF Queue_len(q) = 0
    THEN {[msg_queue |-> q, ret |-> None]}
    ELSE {[msg_queue |-> q (-) SetToBag({e}), ret |-> Some(e)]
          : e \in {e \in BagToSet(q) : \A f \in BagToSet(q) : e.delivery_time >= f.delivery_time}}

\* pop_message as it would be if, among the earliest entries, the one for the smallest
\* recipient came first
pop_message_ascending(q) ==
    IF Queue_len(q) = 0
    THEN {[msg_queue |-> q, ret |-> None]}
    ELSE LET early == {e \in BagToSet(q) : \A f \in BagToSet(q) : e.delivery_time <= f.delivery_time}
         IN  {[msg_queue |-> q (-) SetToBag({e}), ret |-> Some(e)]
              : e \in {e \in early : \A f \in early : e.recipient <= f.recipient}}

\* pop_message as it would be if an empty queue handed out a stale entry
pop_message_stale(q) ==
    IF Queue_len(q) = 0
    THEN {[msg_queue |-> q, ret |-> Some(QueueEntry_new(1, 1, Message_new(1, 0)))]}
    ELSE Queue_pop(q)

\* empty_queue as it would be if it dropped nothing
empty_queue_keep(q) == q

\* fn pop_message: delegates to the queue
pop_message(q) == Queue_pop(q)

\* fn empty_queue: delegates to the queue
empty_queue(q) == Queue_clear(q)

\* VirtualNet::new: collect the validators by id (a later one replaces an
\* earlier one with the same id) and push the initial entries one by one
RECURSIVE push_all(_, _)
push_all(q, entries) ==
    IF entries = <<>> THEN q ELSE push_all(Queue_push(q, Head(entries)), Tail(entries))

\* collect as it would be if the first validator with an id kept its place
collect_first(validators) ==
    [id \in {validators[i].id : i \in DOMAIN validators} |->
        LET first == CHOOSE i \in DOMAIN validators :
                         /\ validators[i].id = id
                         /\ \A j \in DOMAIN validators : validators[j].id = id => i <= j
        IN  validators[first]]

collect(validators) ==
    [id \in {validators[i].id : i \in DOMAIN validators} |->
        LET last == CHOOSE i \in DOMAIN validators :
                        /\ validators[i].id = id
                        /\ \A j \in DOMAIN validators : validators[j].id = id => j <= i
        IN  validators[last]]

VirtualNet_new(validators, strategy, init_messages) ==
    [validators_map |-> collect(validators),
     msg_queue |-> push_all(Queue_default, init_messages),
     delivery_time_strategy |-> strategy]

\* the validators handed to VirtualNet::new: honest ones, and a faulty one with the last id
HonestValidators == {Validator_new(id, FALSE) : id \in AllIds}

Validators == HonestValidators \cup {Validator_new(MaxId, TRUE)}

QueueEntries == {QueueEntry_new(t, r, m) : t \in Timestamps, r \in AllIds, m \in Messages}

\* the inputs of VirtualNet::new, of dispatch_messages and of the push_ operations
HonestLists == SeqsUpTo(HonestValidators, MaxId)

ValidatorLists == SeqsUpTo(Validators, MaxId)

InitBatches == SeqsUpTo(QueueEntries, MaxInit)

\* the initial entries of a net whose construction is looked at: as many as may be pending
NewBatches == SeqsUpTo(QueueEntries, MaxQueue)

Batches == SeqsUpTo(TargetedMessages, MaxBatch)

ValueBatches == SeqsUpTo(Payloads, MaxBatch)

MessageBatches == SeqsUpTo(Messages, MaxBatch)

Seeds == 0..(RngMod - 1)

\* the state VirtualNet::new leaves, for a list of validators of L, a strategy
\* of S and a random source seeded from R, the ledger kept or not
InitTracked(L, S, R, track) ==
    \E validators \in L, strategy \in S, init_messages \in InitBatches, seed \in R :
        LET net == VirtualNet_new(validators, strategy, init_messages)
        IN  /\ validators_map = net.validators_map
            /\ msg_queue = net.msg_queue
            /\ delivery_time_strategy = net.delivery_time_strategy
            /\ rand = seed
            /\ last_op = [op |-> "new"]
            /\ run = <<>>
            /\ max_popped = 0
            /\ phase = "new"
            /\ pushed = init_messages
            /\ ledger = IF track THEN Ledger(init_messages) ELSE NoLedger

InitWith(L, S, R) == InitTracked(L, S, R, FALSE)

Init == InitWith(ValidatorLists, Strategies, Seeds)

\* the state VirtualNet::new leaves, with what it was given on record
InitNew ==
    \E validators \in ValidatorLists, strategy \in Strategies, init_messages \in NewBatches :
        LET net == VirtualNet_new(validators, strategy, init_messages)
        IN  /\ validators_map = net.validators_map
            /\ msg_queue = net.msg_queue
            /\ delivery_time_strategy = net.delivery_time_strategy
            /\ rand = 0
            /\ last_op = [op |-> "new", validators |-> validators,
                          init_messages |-> init_messages]
            /\ run = <<>>
            /\ max_popped = 0
            /\ phase = "new"
            /\ pushed = init_messages
            /\ ledger = NoLedger

\* what a push-type call does to the bookkeeping of pushes and pops
Pushing(entries) ==
    /\ run' = <<>>
    /\ phase' = IF phase \in {"new", "clear"} THEN phase ELSE "mixed"
    /\ pushed' = IF phase \in {"new", "clear"} THEN pushed \o entries ELSE <<>>

DispatchMessages ==
    \E delivery_time \in Timestamps, messages \in Batches :
        \E r \in {dispatch_messages(validators_map, delivery_time_strategy, msg_queue,
                                    rand, delivery_time, messages)} :
            /\ Queue_len(r.msg_queue) <= MaxQueue
            /\ msg_queue' = r.msg_queue
            /\ rand' = r.rand
            /\ last_op' = [op |-> "dispatch_messages", calls |-> Len(r.consulted),
                           dropped |-> Len(r.consulted) - Len(r.scheduled)]
            /\ Pushing(r.scheduled)
            /\ ledger' = Ledger_schedule(ledger, r.scheduled)
            /\ UNCHANGED <<validators_map, delivery_time_strategy, max_popped>>

ScheduleMessage ==
    \E delivery_time \in Timestamps, recipient \in AllIds, message \in Messages :
        /\ Queue_len(msg_queue) < MaxQueue
        /\ msg_queue' = schedule_message(msg_queue, delivery_time, recipient, message)
        /\ last_op' = [op |-> "schedule_message", delivery_time |-> delivery_time,
                       recipient |-> recipient, message |-> message]
        /\ Pushing(<<QueueEntry_new(delivery_time, recipient, message)>>)
        /\ ledger' = Ledger_schedule(ledger, <<QueueEntry_new(delivery_time, recipient, message)>>)
        /\ UNCHANGED <<validators_map, delivery_time_strategy, rand, max_popped>>

\* PopMessage as it would be if popping an entry delivered it: the message appended to
\* the received history of the recipient, when it is registered
PopMessage_delivering ==
    \E r \in pop_message(msg_queue) :
        /\ msg_queue' = r.msg_queue
        /\ validators_map' =
             IF r.ret.some /\ r.ret.entry.recipient \in DOMAIN validators_map
             THEN [validators_map EXCEPT ![r.ret.entry.recipient] =
                      push_messages_received(@, <<r.ret.entry.message>>)]
             ELSE validators_map
        /\ last_op' = [op |-> "pop_message", ret |-> r.ret]
        /\ run' = IF r.ret.some THEN Append(run, r.ret.entry) ELSE run
        /\ max_popped' = IF r.ret.some /\ r.ret.entry.delivery_time > max_popped
                         THEN r.ret.entry.delivery_time ELSE max_popped
        /\ phase' = CASE phase = "new" -> "newpop"
                      [] phase = "clear" -> "clearpop"
                      [] OTHER -> phase
        /\ ledger' = Ledger_deliver(ledger, r.ret)
        /\ UNCHANGED <<delivery_time_strategy, rand, pushed>>

PopMessage ==
    \E r \in pop_message(msg_queue) :
        /\ msg_queue' = r.msg_queue
        /\ last_op' = [op |-> "pop_message", ret |-> r.ret]
        /\ run' = IF r.ret.some THEN Append(run, r.ret.entry) ELSE run
        /\ max_popped' = IF r.ret.some /\ r.ret.entry.delivery_time > max_popped
                         THEN r.ret.entry.delivery_time ELSE max_popped
        /\ phase' = CASE phase = "new" -> "newpop"
                      [] phase = "clear" -> "clearpop"
                      [] OTHER -> phase
        /\ ledger' = Ledger_deliver(ledger, r.ret)
        /\ UNCHANGED <<validators_map, delivery_time_strategy, rand, pushed>>

EmptyQueue ==
    /\ msg_queue' = empty_queue(msg_queue)
    /\ last_op' = [op |-> "empty_queue", discarded |-> Queue_len(msg_queue)]
    /\ run' = <<>>
    /\ phase' = "clear"
    /\ pushed' = <<>>
    /\ ledger' = Ledger_discard(ledger, msg_queue)
    /\ UNCHANGED <<validators_map, delivery_time_strategy, rand, max_popped>>

\* the driver's bookkeeping calls: get_validator_mut(id), then a push_ on the validator found
HistoryLen(v) ==
    Len(v.finalized_values) + Len(v.messages_received) + Len(v.messages_produced)

Accumulate(name, validator_id, items, v1) ==
    LET v == get_validator_mut(validators_map, validator_id)
    IN  /\ v.some => HistoryLen(v.entry) + Len(items) <= MaxHist
        /\ validators_map' = IF v.some
                             THEN [validators_map EXCEPT ![validator_id] = v1]
                             ELSE validators_map
        /\ last_op' = [op |-> name, id |-> validator_id, items |-> items, found |-> v.some]
        /\ UNCHANGED <<msg_queue, delivery_time_strategy, rand, run, max_popped, phase, pushed,
                       ledger>>

PushFinalized ==
    \E validator_id \in AllIds, finalized_values \in ValueBatches :
        Accumulate("push_finalized", validator_id, finalized_values,
                   push_finalized(validators_map[validator_id], finalized_values))

PushMessagesReceived ==
    \E validator_id \in AllIds, messages \in MessageBatches :
        Accumulate("push_messages_received", validator_id, messages,
                   push_messages_received(validators_map[validator_id], messages))

PushMessagesProduced ==
    \E validator_id \in AllIds, messages \in ValueBatches :
        Accumulate("push_messages_produced", validator_id, messages,
                   push_messages_produced(validators_map[validator_id], messages))

\* the lookups: they return what they find and change nothing
Lookup(name, validator_id, ret) ==
    /\ last_op' = [op |-> name, id |-> validator_id, ret |-> ret]
    /\ UNCHANGED <<validators_map, msg_queue, delivery_time_strategy, rand, run, max_popped,
                   phase, pushed, ledger>>

GetValidator ==
    \E id \in AllIds : Lookup("get_validator", id, get_validator(validators_map, id))

GetValidatorMut ==
    \E validator_id \in AllIds :
        Lookup("get_validator_mut", validator_id, get_validator_mut(validators_map, validator_id))

ValidatorLookup ==
    \E validator_id \in AllIds :
        Lookup("validator", validator_id, validator(validators_map, validator_id))

\* the public calls of VirtualNet, and with them schedule_message, which the
\* tests of the module call directly
NextApi == DispatchMessages \/ PopMessage \/ EmptyQueue

NextNet == NextApi \/ ScheduleMessage

NextRegistry == PushFinalized \/ PushMessagesReceived \/ PushMessagesProduced

NextLookup == GetValidator \/ GetValidatorMut \/ ValidatorLookup

Next == NextNet \/ NextRegistry \/ NextLookup

Spec == Init /\ [][Next]_vars

\* the network calls alone: under the identity strategy (which never reads the
\* random source), the public ones under the dropping strategy, and dispatching and
\* popping under the tampering one
SpecNoOp == InitWith(HonestLists, {"NoOpDelay"}, {0}) /\ [][NextNet]_vars

SpecDrop == InitWith(HonestLists, {"AlwaysDrop"}, {0}) /\ [][NextApi]_vars

SpecTamper == InitWith(HonestLists, {"Tamper"}, Seeds) /\ [][DispatchMessages \/ PopMessage]_vars

\* dispatching and popping under the two identity strategies, whatever the random source
SpecDefault ==
    InitWith(HonestLists, {"Default", "NoOpDelay"}, Seeds) /\ [][DispatchMessages \/ PopMessage]_vars

\* the public network calls under the tampering strategy for as long as the ledger
\* is kept: the driver stops dispatching once MaxLedger entries were scheduled
NextLedger == (DispatchMessages /\ (ledger.open)') \/ PopMessage \/ EmptyQueue

SpecLedger == InitTracked(HonestLists, {"Tamper"}, {0}, TRUE) /\ [][NextLedger]_vars

\* the public network calls on a registry that may hold a faulty validator
SpecApi == InitWith(ValidatorLists, {"NoOpDelay"}, {0}) /\ [][NextApi]_vars

\* the network calls under the identity strategy with a driver that keeps popping: a
\* pop_message that can return an entry is not put off for ever (the pop-until-None
\* loops of the tests, lines 326-328 and 357-360)
SpecDrain ==
    InitWith(HonestLists, {"NoOpDelay"}, {0}) /\ [][NextNet]_vars /\ WF_vars(PopMessage)

\* a net built and popped
SpecNew == InitNew /\ [][PopMessage]_vars

\* the bookkeeping calls alone
SpecRegistry == InitWith(ValidatorLists, {"NoOpDelay"}, {0}) /\ [][NextRegistry]_vars

\* lookups between push_finalized calls
SpecLookup == InitWith(ValidatorLists, {"NoOpDelay"}, {0}) /\ [][NextLookup \/ PushFinalized]_vars

\* ------------------------------------------------------------------ claims
\* a sequence of entries is in non-decreasing delivery_time order
Sorted(entries) ==
    \A i, j \in DOMAIN entries : i < j => entries[i].delivery_time <= entries[j].delivery_time

\* every way of popping the queue q until it reports empty: the entries returned, in order
RECURSIVE Drain(_)
Drain(q) ==
    UNION {IF r.ret.some THEN {<<r.ret.entry>> \o rest : rest \in Drain(r.msg_queue)} ELSE {<<>>}
           : r \in pop_message(q)}

\* C1: on a net on which entries were only pushed (VirtualNet::new, schedule_message,
\* dispatch_messages) and then only popped, the entries popped so far are in
\* non-decreasing delivery_time order and are, with those still pending, exactly the
\* entries pushed; once pop_message has reported empty they are all of them.
C1_PushesThenPops ==
    phase = "newpop" =>
        /\ Sorted(run)
        /\ SeqToBag(run) (+) msg_queue = SeqToBag(pushed)
        /\ (~last_op.ret.some => SeqToBag(run) = SeqToBag(pushed))

\* C1 witness: entries pushed latest first have been popped earliest first, until empty
C1_Witness ==
    /\ phase = "newpop"
    /\ last_op.op = "pop_message"
    /\ ~last_op.ret.some
    /\ Len(pushed) = MaxQueue
    /\ \A i \in 1..(Len(pushed) - 1) : pushed[i].delivery_time > pushed[i + 1].delivery_time
    /\ \A i \in DOMAIN run : run[i] = pushed[Len(pushed) + 1 - i]

\* what dispatch_messages does in the current state with base time dt and messages ms
Dispatched(dt, ms) ==
    dispatch_messages(validators_map, delivery_time_strategy, msg_queue, rand, dt, ms)

Registered == DOMAIN validators_map

\* C3: under the identity strategy, dispatching one Target::All message with base time
\* dt makes one strategy call per registered validator and adds to the queue exactly one
\* entry (dt, id, message) for every registered id, the sender's included; popped from
\* an otherwise empty queue, the (recipient, message) pairs are the registered ids
\* paired with the message.
C3_BroadcastComplete ==
    \A dt \in Timestamps, m \in Messages :
        \A r \in {Dispatched(dt, <<TargetedMessage_new(m, All)>>)} :
            /\ Len(r.consulted) = Cardinality(Registered)
            /\ r.msg_queue = msg_queue (+) SetToBag({QueueEntry_new(dt, id, m) : id \in Registered})
            /\ msg_queue = EmptyBag =>
                 \A popped \in Drain(r.msg_queue) :
                    /\ Len(popped) = Cardinality(Registered)
                    /\ {<<popped[i].recipient, popped[i].message>> : i \in DOMAIN popped}
                         = Registered \X {m}

\* C3 witness: a dispatch on a fresh net with validators 1..MaxId has put one entry per
\* validator into the queue, all with one message (sent by validator 1) and one time
C3_Witness ==
    /\ delivery_time_strategy = "NoOpDelay"
    /\ Registered = AllIds
    /\ last_op.op = "dispatch_messages"
    /\ last_op.calls = MaxId
    /\ phase = "new"
    /\ Len(pushed) = MaxId
    /\ {pushed[i].recipient : i \in DOMAIN pushed} = AllIds
    /\ \A i \in DOMAIN pushed : /\ pushed[i].message = pushed[1].message
                                /\ pushed[i].message.sender = 1
                                /\ pushed[i].delivery_time = pushed[1].delivery_time
    /\ msg_queue = SeqToBag(pushed)

\* the ids a target stands for
TargetIds(target) == IF target.tag = "All" THEN Registered ELSE {target.id}

\* the (recipient, message) pairs of a batch of targeted messages, as a bag
RECURSIVE PairsOf(_)
PairsOf(ms) ==
    IF ms = <<>> THEN EmptyBag
    ELSE SetToBag({[recipient |-> id, message |-> Head(ms).message]
                   : id \in TargetIds(Head(ms).target)}) (+) PairsOf(Tail(ms))

\* the entries the strategy calls of a dispatch resolved to AtInstant, as a bag
RECURSIVE Resolved(_)
Resolved(calls) ==
    IF calls = <<>> THEN EmptyBag
    ELSE (IF Head(calls).out.tag = "AtInstant"
          THEN SetToBag({QueueEntry_new(Head(calls).out.t, Head(calls).recipient,
                                        Head(calls).message)})
          ELSE EmptyBag) (+) Resolved(Tail(calls))

\* C4: a dispatch_messages call consults the strategy once per (recipient, message)
\* pair, every time with the base delivery time, and adds to the queue exactly the
\* entries (t, recipient, message) of the pairs whose outcome was AtInstant(t).
C4_StrategyPerRecipient ==
    \A dt \in Timestamps, ms \in Batches :
        \A r \in {Dispatched(dt, ms)} :
            /\ SeqToBag([i \in DOMAIN r.consulted |->
                            [recipient |-> r.consulted[i].recipient,
                             message |-> r.consulted[i].message]]) = PairsOf(ms)
            /\ \A i \in DOMAIN r.consulted : r.consulted[i].arg = DeliverySchedule_at(dt)
            /\ r.msg_queue = msg_queue (+) Resolved(r.consulted)

\* C4 witness: one dispatch to validators 1..MaxId on a fresh, empty net has dropped
\* the message for validator 1 and scheduled it for another one
C4_Witness ==
    /\ delivery_time_strategy = "Tamper"
    /\ Registered = AllIds
    /\ last_op.op = "dispatch_messages"
    /\ last_op.calls = MaxId
    /\ last_op.dropped > 0
    /\ last_op.dropped < last_op.calls
    /\ phase = "new"
    /\ Len(pushed) = last_op.calls - last_op.dropped
    /\ \A i \in DOMAIN pushed : pushed[i].recipient # 1
    /\ msg_queue = SeqToBag(pushed)

\* C5: under the strategy that always drops, a dispatch_messages call leaves the queue
\* as it was, every strategy call of it being a drop; and on a net that was created
\* without initial entries, a pop_message after dispatches alone returns empty.
C5_DropExclusive ==
    [][/\ last_op'.op = "dispatch_messages" =>
            /\ msg_queue' = msg_queue
            /\ last_op'.dropped = last_op'.calls
       /\ (phase = "new" /\ pushed = <<>> /\ last_op'.op = "pop_message") =>
            last_op'.ret = None]_vars

\* C5 witness: a dispatch with several recipients on a net created empty left it empty
C5_Witness ==
    /\ delivery_time_strategy = "AlwaysDrop"
    /\ last_op.op = "dispatch_messages"
    /\ last_op.calls > 1
    /\ last_op.dropped = last_op.calls
    /\ phase = "new"
    /\ pushed = <<>>
    /\ msg_queue = EmptyBag

\* C6: pop_message on a non-empty queue returns an entry of the queue whose
\* delivery_time is at most that of every entry left, and removes that one entry
\* and nothing else.
C6_PopEarliest ==
    [][(last_op'.op = "pop_message" /\ Queue_len(msg_queue) > 0) =>
            /\ last_op'.ret.some
            /\ BagIn(last_op'.ret.entry, msg_queue)
            /\ msg_queue' (+) SetToBag({last_op'.ret.entry}) = msg_queue
            /\ \A e \in BagToSet(msg_queue') :
                   last_op'.ret.entry.delivery_time <= e.delivery_time]_vars

\* C6 witness: a pop returned an entry and left a later one pending
C6_Witness ==
    /\ last_op.op = "pop_message"
    /\ last_op.ret.some
    /\ \E e \in BagToSet(msg_queue) : last_op.ret.entry.delivery_time < e.delivery_time

\* C7 as stated: an entry returned by pop_message is never earlier than any entry
\* returned by a pop_message before it, however dispatches and pops interleave.
C7_AlwaysNonDecreasing ==
    [][(last_op'.op = "pop_message" /\ last_op'.ret.some) =>
            last_op'.ret.entry.delivery_time >= max_popped]_vars

\* C7 amended: the entries returned by pop_message calls with no dispatch_messages,
\* schedule_message or empty_queue call between them are in non-decreasing
\* delivery_time order.
C7_NonDecreasingBetweenPushes == Sorted(run)

\* C7 witness: after pushes and pops have interleaved, two pops in a row returned
\* entries of different delivery times
C7_Witness ==
    /\ phase = "mixed"
    /\ Len(run) = 2
    /\ run[1].delivery_time < run[2].delivery_time

\* C8: when schedule_message has put an entry into an empty queue, the pop_message
\* that follows returns an entry with that delivery_time, recipient and message, and
\* leaves the queue empty.
C8_RoundTrip ==
    [][(/\ last_op.op = "schedule_message"
        /\ Queue_len(msg_queue) = 1
        /\ last_op'.op = "pop_message") =>
            /\ last_op'.ret.some
            /\ last_op'.ret.entry.delivery_time = last_op.delivery_time
            /\ last_op'.ret.entry.recipient = last_op.recipient
            /\ last_op'.ret.entry.message = last_op.message
            /\ msg_queue' = EmptyBag]_vars

\* C8 witness: the one entry pushed since the queue was emptied has been popped
C8_Witness ==
    /\ phase = "clearpop"
    /\ last_op.op = "pop_message"
    /\ last_op.ret.some
    /\ pushed = <<last_op.ret.entry>>
    /\ run = pushed
    /\ msg_queue = EmptyBag

\* C9: empty_queue leaves the queue empty whatever was pending; the pop_message right
\* after it returns empty; and what is popped after pushes that follow the clear is,
\* with what is still pending, exactly what those pushes put in, earliest first.
C9_EmptyAfterClear ==
    [][/\ last_op'.op = "empty_queue" => msg_queue' = EmptyBag
       /\ (last_op.op = "empty_queue" /\ last_op'.op = "pop_message") =>
            (last_op'.ret = None /\ msg_queue' = EmptyBag)
       /\ phase' \in {"clear", "clearpop"} =>
            (SeqToBag(run') (+) msg_queue' = SeqToBag(pushed') /\ Sorted(run'))]_vars

\* C9 witness: empty_queue has discarded a full queue
C9_Witness ==
    /\ last_op.op = "empty_queue"
    /\ last_op.discarded = MaxQueue
    /\ msg_queue = EmptyBag

\* the fields of a validator other than the history h
Others(v, h) ==
    [id |-> v.id, is_faulty |-> v.is_faulty,
     finalized_values |-> IF h = "push_finalized" THEN <<>> ELSE v.finalized_values,
     messages_received |-> IF h = "push_messages_received" THEN <<>> ELSE v.messages_received,
     messages_produced |-> IF h = "push_messages_produced" THEN <<>> ELSE v.messages_produced]

\* C10: a push_finalized, push_messages_received or push_messages_produced on one
\* validator leaves the set of registered ids, every other validator, that validator's
\* id, fault flag and other two histories, and the delivery queue as they were.
C10_RegistryIsolation ==
    [][last_op'.op \in {"push_finalized", "push_messages_received", "push_messages_produced"} =>
            /\ DOMAIN validators_map' = DOMAIN validators_map
            /\ \A id \in DOMAIN validators_map :
                   IF id = last_op'.id
                   THEN Others(validators_map'[id], last_op'.op)
                            = Others(validators_map[id], last_op'.op)
                   ELSE validators_map'[id] = validators_map[id]
            /\ msg_queue' = msg_queue]_vars

\* C10 witness: items were pushed to a history of the faulty validator while the other
\* validator had a history of its own and an entry was pending
C10_Witness ==
    /\ last_op.op \in {"push_finalized", "push_messages_received", "push_messages_produced"}
    /\ last_op.found
    /\ Len(last_op.items) > 0
    /\ validators_map[last_op.id].is_faulty
    /\ \E id \in Registered : id # last_op.id /\ HistoryLen(validators_map[id]) > 0
    /\ msg_queue # EmptyBag

\* the history a push_ operation extends
HistoryOf(v, name) ==
    CASE name = "push_finalized" -> v.finalized_values
      [] name = "push_messages_received" -> v.messages_received
      [] OTHER -> v.messages_produced

\* C11: a validator starts with empty histories, and every push_finalized,
\* push_messages_received and push_messages_produced call leaves its history equal to
\* what it was followed by the batch passed, in the batch's order and with repeated
\* values kept; finalized_count is the length of the finalized history, so it grows
\* by the length of every batch passed to push_finalized.
C11_HistoriesAppend ==
    /\ [](last_op.op = "new" => \A id \in Registered : HistoryLen(validators_map[id]) = 0)
    /\ [][(last_op'.op \in {"push_finalized", "push_messages_received",
                            "push_messages_produced"} /\ last_op'.found) =>
            /\ HistoryOf(validators_map'[last_op'.id], last_op'.op)
                 = HistoryOf(validators_map[last_op'.id], last_op'.op) \o last_op'.items
            /\ finalized_count(validators_map'[last_op'.id])
                 = Len(validators_map'[last_op'.id].finalized_values)
            /\ finalized_count(validators_map'[last_op'.id])
                 = finalized_count(validators_map[last_op'.id])
                     + (IF last_op'.op = "push_finalized" THEN Len(last_op'.items) ELSE 0)]_vars

\* C11 witness: a payload was pushed to a produced history that already held it, and
\* the history now holds it twice
C11_Witness ==
    /\ last_op.op = "push_messages_produced"
    /\ last_op.found
    /\ Len(last_op.items) = 1
    /\ validators_map[last_op.id].messages_produced = <<last_op.items[1], last_op.items[1]>>

\* C12: get_validator, validator and get_validator_mut leave the registry and the
\* queue as they were; for an id that is not registered they return None, for a
\* registered id the validator registered under it, whose id is the id asked for.
C12_LookupAbsent ==
    [][last_op'.op \in {"get_validator", "validator", "get_validator_mut"} =>
            /\ validators_map' = validators_map
            /\ msg_queue' = msg_queue
            /\ IF last_op'.id \in Registered
               THEN /\ last_op'.ret = Some(validators_map[last_op'.id])
                    /\ last_op'.ret.entry.id = last_op'.id
               ELSE last_op'.ret = None]_vars

\* C12 witness: an id missing from a registry that holds a validator with a history
\* was looked up, and the answer was None
C12_Witness ==
    /\ last_op.op = "get_validator"
    /\ last_op.id \notin Registered
    /\ last_op.ret = None
    /\ \E id \in Registered : finalized_count(validators_map[id]) > 0

Reversed(s) == [i \in DOMAIN s |-> s[Len(s) + 1 - i]]

AtTime(pairs, dt) ==
    [e \in {QueueEntry_new(dt, p.recipient, p.message) : p \in BagToSet(pairs)} |->
        pairs[[recipient |-> e.recipient, message |-> e.message]]]

\* C14: under the provided Strategy::map and under NoOpDelay, whatever the state of
\* the random source, a dispatch_messages call with base time dt makes one strategy
\* call per resolved recipient, none of which drops, and adds to the queue exactly one
\* entry per resolved recipient, each with delivery_time dt.
C14_IdentityStrategy ==
    \A dt \in Timestamps, ms \in Batches :
        \A r \in {Dispatched(dt, ms)} :
            /\ Len(r.consulted) = BagCardinality(PairsOf(ms))
            /\ Len(r.scheduled) = Len(r.consulted)
            /\ \A i \in DOMAIN r.consulted : r.consulted[i].out = DeliverySchedule_at(dt)
            /\ \A i \in DOMAIN r.scheduled : r.scheduled[i].delivery_time = dt
            /\ r.msg_queue = msg_queue (+) AtTime(PairsOf(ms), dt)

\* C14 witness: under the provided Strategy::map and a random source in a non-zero
\* state, one dispatch on a fresh, empty net scheduled an entry for each of validators
\* 1..MaxId, none dropped, all at one time
C14_Witness ==
    /\ delivery_time_strategy = "Default"
    /\ rand # 0
    /\ Registered = AllIds
    /\ last_op.op = "dispatch_messages"
    /\ last_op.calls = MaxId
    /\ last_op.dropped = 0
    /\ phase = "new"
    /\ Len(pushed) = MaxId
    /\ \A i \in DOMAIN pushed : pushed[i].delivery_time = pushed[1].delivery_time
    /\ msg_queue = SeqToBag(pushed)

\* C15: the pending entries are the entries scheduled so far (the initial batch and the
\* AtInstant outcomes of every dispatch) less those pop_message returned and those
\* empty_queue discarded, as multisets: no scheduled entry is returned twice and none
\* is returned that was not scheduled; and a step other than empty_queue takes out of
\* the queue at most the one entry pop_message returns, every other pending entry
\* staying in it with its delivery_time, recipient and message.
C15_Conservation ==
    /\ [](ledger.open =>
            msg_queue (+) ledger.delivered (+) ledger.discarded = ledger.scheduled)
    /\ [][last_op'.op # "empty_queue" =>
            \A e \in BagToSet(msg_queue) :
                CopiesIn(e, msg_queue') >=
                    CopiesIn(e, msg_queue)
                      - (IF last_op'.op = "pop_message" /\ last_op'.ret = Some(e)
                         THEN 1 ELSE 0)]_vars

\* C15 witness: of the entries scheduled, one the tampering strategy had delayed, one
\* was returned by pop_message, one was discarded by empty_queue and none is pending
C15_Witness ==
    /\ ledger.open
    /\ BagCardinality(ledger.scheduled) = MaxLedger
    /\ \E e \in BagToSet(ledger.scheduled) : e.delivery_time > MaxTime
    /\ BagCardinality(ledger.delivered) > 0
    /\ BagCardinality(ledger.discarded) > 0
    /\ msg_queue = EmptyBag

\* C16: dispatch_messages, pop_message and empty_queue leave the registry as it was:
\* the same ids, and for every id the same validator, with its fault flag and its
\* finalized, received and produced histories; the validators are registered under
\* their own ids, as VirtualNet::new registered them.
C16_RegistryFixed ==
    /\ [](\A id \in Registered : validators_map[id].id = id)
    /\ [][last_op'.op \in {"dispatch_messages", "pop_message", "empty_queue"} =>
            /\ DOMAIN validators_map' = DOMAIN validators_map
            /\ \A id \in Registered :
                   /\ validators_map'[id].is_faulty = validators_map[id].is_faulty
                   /\ validators_map'[id].finalized_values = validators_map[id].finalized_values
                   /\ validators_map'[id].messages_received = validators_map[id].messages_received
                   /\ validators_map'[id].messages_produced = validators_map[id].messages_produced]_vars

\* C16 witness: pop_message returned an entry addressed to the registered faulty
\* validator, whose received history is still empty
C16_Witness ==
    /\ last_op.op = "pop_message"
    /\ last_op.ret.some
    /\ last_op.ret.entry.recipient \in Registered
    /\ validators_map[last_op.ret.entry.recipient].is_faulty
    /\ validators_map[last_op.ret.entry.recipient].messages_received = <<>>
    /\ phase = "mixed"

\* the elements of a set of ids, smallest first
Ascending(S) ==
    CHOOSE s \in [1..Cardinality(S) -> S] : \A i, j \in DOMAIN s : i < j => s[i] < s[j]

\* the (recipient, message) pairs of a batch in the order the claim gives: message by
\* message, a broadcast to the registered ids in ascending order
RECURSIVE ExpectedCalls(_)
ExpectedCalls(ms) ==
    IF ms = <<>> THEN <<>>
    ELSE LET ids == IF Head(ms).target.tag = "All" THEN Ascending(Registered)
                    ELSE <<Head(ms).target.id>>
         IN  [i \in DOMAIN ids |-> [recipient |-> ids[i], message |-> Head(ms).message]]
                 \o ExpectedCalls(Tail(ms))

\* the strategy calls are the draws of the random source, one after the other from rng
RECURSIVE InDrawOrder(_, _)
InDrawOrder(calls, rng) ==
    calls = <<>> \/
        \A d \in {map(delivery_time_strategy, rng, Head(calls).arg)} :
            Head(calls).out = d.out /\ InDrawOrder(Tail(calls), d.rand)

\* the entries of the calls that were not dropped, in the order of the calls
RECURSIVE Survivors(_)
Survivors(calls) ==
    IF calls = <<>> THEN <<>>
    ELSE (IF Head(calls).out.tag = "AtInstant"
          THEN <<QueueEntry_new(Head(calls).out.t, Head(calls).recipient, Head(calls).message)>>
          ELSE <<>>) \o Survivors(Tail(calls))

\* C17: a dispatch_messages call consults the strategy for the messages in the order of
\* the input sequence, each message for all of its recipients before the next, a
\* Target::All message for the registered ids in ascending order; the calls consume the
\* random source in that order, and the entries that survive are pushed in that order.
C17_ExpansionOrder ==
    \A dt \in Timestamps, ms \in Batches :
        \A r \in {Dispatched(dt, ms)} :
            /\ [i \in DOMAIN r.consulted |->
                    [recipient |-> r.consulted[i].recipient,
                     message |-> r.consulted[i].message]] = ExpectedCalls(ms)
            /\ InDrawOrder(r.consulted, rand)
            /\ r.scheduled = Survivors(r.consulted)

\* C17 witness: a broadcast followed by a message for one validator, dispatched on a
\* fresh, empty net with validators 1..MaxId and a fresh random source: the entry for
\* validator 1 is on time, the one for validator 2 late, the single message dropped
C17_Witness ==
    /\ delivery_time_strategy = "Tamper"
    /\ Registered = AllIds
    /\ last_op.op = "dispatch_messages"
    /\ last_op.calls = MaxId + 1
    /\ last_op.dropped = 1
    /\ phase = "new"
    /\ Len(pushed) = MaxId
    /\ pushed[1].recipient = 1
    /\ pushed[2].recipient = 2
    /\ pushed[1].delivery_time < pushed[2].delivery_time
    /\ pushed[1].message = pushed[2].message
    /\ msg_queue = SeqToBag(pushed)

\* C18: dispatching one message with Target::SingleValidator(id), whether id is
\* registered or not, makes exactly one strategy call; on Drop the queue stays as it
\* was; on AtInstant(t) exactly the entry (t, id, message) is added, and popping the
\* queue until it is empty returns that entry.
C18_SingleUnchecked ==
    \A dt \in Timestamps, m \in Messages, id \in AllIds :
        \A r \in {Dispatched(dt, <<TargetedMessage_new(m, SingleValidator(id))>>)} :
            /\ Len(r.consulted) = 1
            /\ r.consulted[1].recipient = id
            /\ IF r.consulted[1].out.tag = "Drop"
               THEN r.scheduled = <<>> /\ r.msg_queue = msg_queue
               ELSE \A e \in {QueueEntry_new(r.consulted[1].out.t, id, m)} :
                       /\ r.scheduled = <<e>>
                       /\ r.msg_queue = msg_queue (+) SetToBag({e})
                       /\ \A popped \in Drain(r.msg_queue) :
                              \E i \in DOMAIN popped : popped[i] = e

\* C18 witness: pop_message returned an entry that a dispatch had scheduled (late) for
\* an id that is not registered, on a net that has a registered validator
C18_Witness ==
    /\ delivery_time_strategy = "Tamper"
    /\ Registered # {}
    /\ last_op.op = "pop_message"
    /\ last_op.ret.some
    /\ last_op.ret.entry.recipient \notin Registered
    /\ last_op.ret.entry.delivery_time > MaxTime

\* C19: a pop_message call returns an entry exactly when one is pending and then
\* leaves one entry fewer pending, so with k entries pending and no call but
\* pop_message the next k calls return an entry and the calls after them return None;
\* and if from some point on the driver calls nothing but pop_message, the queue is
\* eventually empty and stays empty.
C19_DrainTerminates ==
    /\ [][last_op'.op = "pop_message" =>
            /\ last_op'.ret.some <=> Queue_len(msg_queue) > 0
            /\ Queue_len(msg_queue') + (IF last_op'.ret.some THEN 1 ELSE 0)
                 = Queue_len(msg_queue)]_vars
    /\ (<>[][PopMessage]_vars => <>[](msg_queue = EmptyBag))

\* C19 witness: after pushes and pops had interleaved, MaxQueue pending entries were
\* popped one after the other and the pop after them returned None
C19_Witness ==
    /\ phase = "mixed"
    /\ last_op.op = "pop_message"
    /\ last_op.ret = None
    /\ Len(run) = MaxQueue
    /\ msg_queue = EmptyBag

\* C20: pop_message on an empty queue returns None and leaves the queue and the
\* registry as they were; in the state it leaves, the queue is empty, another
\* pop_message returns None again, and a message dispatched to one validator is
\* scheduled as the strategy says: when it is not dropped, popping until empty returns
\* its entry and nothing else.
C20_EmptyPop ==
    /\ [][(last_op'.op = "pop_message" /\ msg_queue = EmptyBag) =>
            /\ last_op'.ret = None
            /\ msg_queue' = msg_queue
            /\ validators_map' = validators_map]_vars
    /\ []((last_op.op = "pop_message" /\ last_op.ret = None) =>
            /\ msg_queue = EmptyBag
            /\ \A r \in pop_message(msg_queue) : r.ret = None /\ r.msg_queue = msg_queue
            /\ \A dt \in Timestamps, m \in Messages, id \in AllIds :
                   \A r \in {Dispatched(dt, <<TargetedMessage_new(m, SingleValidator(id))>>)} :
                       IF r.consulted[1].out.tag = "Drop"
                       THEN Drain(r.msg_queue) = {<<>>}
                       ELSE Drain(r.msg_queue)
                                = {<<QueueEntry_new(r.consulted[1].out.t, id, m)>>})

\* C20 witness: on a net created without entries pop_message was called before
\* anything was scheduled; the one entry dispatched after that has been returned by a
\* later pop_message
C20_Witness ==
    /\ phase = "mixed"
    /\ ledger.open
    /\ BagCardinality(ledger.scheduled) = 1
    /\ ledger.delivered = ledger.scheduled
    /\ last_op.op = "pop_message"
    /\ last_op.ret.some
    /\ msg_queue = EmptyBag

\* C21: the net VirtualNet::new builds holds exactly the initial entries, as they were
\* handed over, whatever the strategy; it holds one validator for every id of the
\* collection, under that id, and for an id that occurs more than once the validator
\* that comes last with it; popped until empty, the net returns exactly the initial
\* entries in non-decreasing delivery_time order.
C21_Construction ==
    /\ last_op.op = "new" =>
         /\ msg_queue = SeqToBag(last_op.init_messages)
         /\ Registered = {last_op.validators[i].id : i \in DOMAIN last_op.validators}
         /\ \A i \in DOMAIN last_op.validators :
                \/ \E j \in DOMAIN last_op.validators :
                       j > i /\ last_op.validators[j].id = last_op.validators[i].id
                \/ validators_map[last_op.validators[i].id] = last_op.validators[i]
         /\ \A popped \in Drain(msg_queue) :
                Sorted(popped) /\ SeqToBag(popped) = SeqToBag(last_op.init_messages)
    /\ \A id \in Registered : validators_map[id].id = id
    /\ Sorted(run)
    /\ SeqToBag(run) (+) msg_queue = SeqToBag(pushed)
    /\ (last_op.op = "pop_message" /\ ~last_op.ret.some) => SeqToBag(run) = SeqToBag(pushed)

\* C21 witness: a net was built under the dropping strategy from two validators with
\* one id, the honest one first, and MaxQueue initial entries, the later one first:
\* it holds the faulty validator and all the entries
C21_Witness ==
    /\ last_op.op = "new"
    /\ delivery_time_strategy = "AlwaysDrop"
    /\ Len(last_op.validators) = 2
    /\ last_op.validators[1].id = last_op.validators[2].id
    /\ ~last_op.validators[1].is_faulty
    /\ validators_map[last_op.validators[1].id].is_faulty
    /\ Len(last_op.init_messages) = MaxQueue
    /\ last_op.init_messages[1].delivery_time > last_op.init_messages[2].delivery_time
    /\ Queue_len(msg_queue) = MaxQueue

\* C22: dispatching a batch in one dispatch_messages call leaves the queue and the
\* random source as dispatching its first part and then, with the same base time, the
\* rest does; dispatching no message leaves both as they were.
C22_BatchComposition ==
    \A dt \in Timestamps :
        /\ \A r \in {Dispatched(dt, <<>>)} : r.msg_queue = msg_queue /\ r.rand = rand
        /\ \A ms \in Batches :
               \A k \in 1..(Len(ms) - 1) :
                   \A r \in {Dispatched(dt, ms)}, r1 \in {Dispatched(dt, SubSeq(ms, 1, k))} :
                       \A r2 \in {dispatch_messages(validators_map, delivery_time_strategy,
                                                    r1.msg_queue, r1.rand, dt,
                                                    SubSeq(ms, k + 1, Len(ms)))} :
                           r.msg_queue = r2.msg_queue /\ r.rand = r2.rand

\* C22 witness: one call dispatched a message for validator 2 and then one for
\* validator 1 on a fresh, empty net with a fresh random source: the first is on time,
\* the second, which met the next draw, late
C22_Witness ==
    /\ delivery_time_strategy = "Tamper"
    /\ last_op.op = "dispatch_messages"
    /\ last_op.calls = 2
    /\ last_op.dropped = 0
    /\ phase = "new"
    /\ Len(pushed) = 2
    /\ pushed[1].recipient = 2
    /\ pushed[2].recipient = 1
    /\ pushed[2].delivery_time = pushed[1].delivery_time + 1
    /\ rand = 2
    /\ msg_queue = SeqToBag(pushed)

====
